---- MODULE Spec2Model ----
(***************************************************************************)
(* Model of samers.py: the duplication auditor and copyright-notice        *)
(* inserter.  Text is modelled at character level: a string is a sequence  *)
(* of one-character strings, a file's content is such a sequence, and a    *)
(* path is a record naming the file (tmp > 0 for a temporary file).        *)
(***************************************************************************)
EXTENDS Integers, Sequences, FiniteSets, TLC

VARIABLES
  fs,               \* the filesystem: path -> content (or Dir)
  fsStart,          \* the filesystem when the run started
  noticesLines,     \* NoticesEditor._noticesLines
  counting,         \* --count
  insertNotices,    \* --insert-notices
  verbose,          \* --verbose
  yes,              \* --yes
  originals,        \* positional arguments
  gitFiles,         \* what git ls-files -z lists
  pc,               \* where the run is
  idx,              \* position in the list being iterated
  originalsChecked, \* __call__'s counter
  edited,           \* __call__'s counter
  ask,              \* the running _ask_overwrite call, if any: <<call>> or <<>>
  stdin,            \* the responses input() has returned so far
  out,              \* what was printed
  report,           \* what diff_all wrote to its report
  args,             \* the arguments of the function being applied, or the
                    \* state of process_original's loop over diff_each
  result            \* what it returned

vars == <<fs, fsStart, noticesLines, counting, insertNotices, verbose, yes, originals,
          gitFiles, pc, idx, originalsChecked, edited, ask, stdin, out,
          report, args, result>>

\* Bounds of the model.
MaxNoticeLines == 2
MaxFileLines == 3
MaxReprompts == 2
MaxCandidates == 2
MaxPaths == 3
MaxPatterns == 2
NumContents == 2

None == "None"
\* check's "no line count" (Python's None where a count is expected).
NoLineCount == -1
NL == "\n"
SP == " "

----------------------------------------------------------------------------
\* Python's str and file primitives, as the program uses them.

IsSpace(c) == c \in {SP, NL}

RECURSIVE lstrip(_)
lstrip(s) == IF s # <<>> /\ IsSpace(Head(s)) THEN lstrip(Tail(s)) ELSE s

RECURSIVE rstrip(_)
rstrip(s) ==
  IF s # <<>> /\ IsSpace(s[Len(s)]) THEN rstrip(SubSeq(s, 1, Len(s) - 1)) ELSE s

strip(s) == rstrip(lstrip(s))

startswith(s, prefix) ==
  Len(prefix) <= Len(s) /\ SubSeq(s, 1, Len(prefix)) = prefix

\* str.find: the lowest index (from 0) where sub occurs in s, else -1.
find(s, sub) ==
  LET hits == {i \in 0..(Len(s) - Len(sub)) : SubSeq(s, i + 1, i + Len(sub)) = sub}
  IN IF hits = {} THEN -1 ELSE CHOOSE i \in hits : \A j \in hits : i <= j

lower(c) == CASE c = "Y" -> "y" [] c = "N" -> "n" [] OTHER -> c

str_lower(s) == [i \in 1..Len(s) |-> lower(s[i])]

RECURSIVE Flatten(_)
Flatten(ss) == IF ss = <<>> THEN <<>> ELSE Head(ss) \o Flatten(Tail(ss))

\* file.readlines(), and iteration over a file: lines keep their newline.
RECURSIVE readlines(_)
readlines(content) ==
  IF content = <<>> THEN <<>>
  ELSE LET ends == {i \in 1..Len(content) : content[i] = NL}
           n == IF ends = {} THEN Len(content)
                ELSE CHOOSE i \in ends : \A j \in ends : i <= j
       IN <<SubSeq(content, 1, n)>> \o readlines(SubSeq(content, n + 1, Len(content)))

\* difflib.context_diff: nothing for equal sequences, else the two header
\* lines naming the files and then the hunk.
context_diff(linesLeft, lines, fromfile, tofile) ==
  IF linesLeft = lines THEN <<>>
  ELSE << <<"***", fromfile>>, <<"---", tofile>>, <<"!", linesLeft, lines>> >>

----------------------------------------------------------------------------
\* Paths.

Path(name) == [tmp |-> 0, name |-> name]

\* pathlib's Path.suffix for the names the model uses.
path_suffix(p) ==
  CASE p.name = "a.py" -> ".py"
    [] p.name = "B.java" -> ".java"
    [] p.name = "r.xml" -> ".xml"
    [] p.name = "i.png" -> ".png"
    [] p.name = "t.txt" -> ".txt"
    [] OTHER -> ""

name_startswith_dot(p) == p.name = ".gitignore"

Dir == <<"<directory>">>

is_dir(files, p) == p \in DOMAIN files /\ files[p] = Dir

\* A file created or replaced.
Written(files, p, content) ==
  [q \in DOMAIN files \cup {p} |-> IF q = p THEN content ELSE files[q]]

\* shutil.copy(pathSource, pathDestination)
shutil_copy(files, pathSource, pathDestination) ==
  Written(files, pathDestination, files[pathSource])

----------------------------------------------------------------------------
\* NoticesEditor.

leader_suffixes_map ==
  << << <<"#">>, {".gitignore", ".pro", ".properties", ".py"} >>,
     << <<"/", "/">>, {".gradle", ".java", ".kt"} >> >>

exempt_suffixes == {".png"}

custom_suffixes_map == [s \in {".xml"} |-> "xml_editor"]

\* NoticesEditor.__init__: the notice lines, stripped.
NoticesEditor_init(noticesContent) ==
  LET raw == readlines(noticesContent)
  IN [i \in 1..Len(raw) |-> strip(raw[i])]

\* "\n".join(("<!--", *["    " + line ...], "-->\n"))
noticesXML(nl) ==
  <<"<", "!", "-", "-">> \o <<NL>>
    \o Flatten([i \in 1..Len(nl) |-> <<SP, SP, SP, SP>> \o nl[i] \o <<NL>>])
    \o <<"-", "-", ">", NL>>

effective_suffix(p) ==
  IF path_suffix(p) = "" /\ name_startswith_dot(p) THEN p.name ELSE path_suffix(p)

\* The loop of check over the file's lines from line i on.
RECURSIVE check_scan(_, _, _, _)
check_scan(lines, nl, i, linesFound) ==
  IF i > Len(lines) THEN [ok |-> FALSE, linesFound |-> linesFound]
  ELSE IF linesFound >= Len(nl)
       THEN [ok |-> TRUE, linesFound |-> linesFound]     \* IndexError
       ELSE IF find(lines[i], nl[linesFound + 1]) >= 0
            THEN check_scan(lines, nl, i + 1, linesFound + 1)
            ELSE check_scan(lines, nl, i + 1, linesFound)

check(files, nl, p) ==
  IF effective_suffix(p) \in exempt_suffixes
  THEN [ok |-> TRUE, linesFound |-> NoLineCount]
  ELSE check_scan(readlines(files[p]), nl, 1, 0)

leader_editor(commentLead, nl, original) ==
  LET lines == readlines(original)
  IN Flatten([i \in 1..Len(nl) |-> commentLead \o <<SP>> \o nl[i] \o <<NL>>])
       \o Flatten([i \in 1..Len(lines) |->
                    (IF i = 1 /\ strip(lines[i]) # <<>> THEN <<NL>> ELSE <<>>)
                      \o lines[i]])

xml_editor(nl, original) ==
  LET lines == readlines(original)
      line == IF lines = <<>> THEN <<>> ELSE lines[1]
      rest == IF lines = <<>> THEN <<>> ELSE Flatten(Tail(lines))
  IN IF startswith(line, <<"<", "?", "x", "m", "l">>)
     THEN line \o noticesXML(nl) \o rest
     ELSE noticesXML(nl) \o line \o rest

\* An edit made in place: the original's own name instead of a new one.
NamedTemporaryFile_in_place(files, originalPath) ==
  IF originalPath \in DOMAIN files THEN originalPath ELSE Path(originalPath.name)

\* NamedTemporaryFile(delete=False, ...): a new file, whose name no file has.
NamedTemporaryFile(files, originalPath) ==
  LET used == {q.tmp : q \in DOMAIN files}
      k == CHOOSE n \in 1..(Cardinality(used) + 1) : n \notin used
  IN [tmp |-> k, name |-> originalPath.name]

editor_differences(files, originalPath, editedPath) ==
  context_diff(readlines(files[originalPath]), readlines(files[editedPath]),
               originalPath, Path("Edited"))

\* insert: the filesystem after it, and what it returns or raises.
insert(files, nl, originalPath) ==
  LET suffix == effective_suffix(originalPath)
      customEditor == IF suffix \in DOMAIN custom_suffixes_map
                      THEN custom_suffixes_map[suffix] ELSE None
      leads == {i \in 1..Len(leader_suffixes_map) :
                  suffix \in leader_suffixes_map[i][2]}
      editedPath == NamedTemporaryFile(files, originalPath)
      created == Written(files, editedPath, <<>>)
      content == IF customEditor = None
                 THEN leader_editor(
                        leader_suffixes_map[CHOOSE i \in leads : \A j \in leads : i <= j][1],
                        nl, files[originalPath])
                 ELSE xml_editor(nl, files[originalPath])
      after == Written(files, editedPath, content)
  IN IF customEditor = None /\ leads = {}
     THEN [raised |-> "UnboundLocalError", fs |-> created,
           editedPath |-> editedPath, differences |-> None]
     ELSE [raised |-> None, fs |-> after, editedPath |-> editedPath,
           differences |-> editor_differences(after, originalPath, editedPath)]

----------------------------------------------------------------------------
\* The rule table, the glob matcher and the diff engine.

\* Rules.simplePatterns and Rules.namedPatternLists, cut to the rules the
\* model's tree has files for.
simplePatterns == <<"nuffin", "samers*", "**/buildBase.gradle">>

namedPatternLists ==
  << <<"unbranded styles.xml files",
       <<"base*/**/styles.xml", "client*/**/styles.xml">> >> >>

\* Rules.named_lists: the simple patterns, each its own description, then
\* the named lists.
named_lists ==
  [i \in 1..Len(simplePatterns) |-> <<simplePatterns[i], <<simplePatterns[i]>> >>]
    \o namedPatternLists

\* The places of the tree each pattern can match, in directory order.
GlobPool(pattern) ==
  CASE pattern = "samers*" -> <<Path("samers.py")>>
    [] pattern = "**/buildBase.gradle" ->
         <<Path("baseJava/buildBase.gradle"), Path("clientJava/buildBase.gradle")>>
    [] pattern = "base*/**/styles.xml" ->
         <<Path("baseJava/styles.xml"), Path("baseKotlin/styles.xml"),
           Path("baseSwing/styles.xml")>>
    [] pattern = "client*/**/styles.xml" ->
         <<Path("clientJava/styles.xml"), Path("clientKotlin/styles.xml")>>
    [] OTHER -> <<>>

\* path.glob(pattern): the files there are among them.
glob(files, pattern) ==
  SelectSeq(GlobPool(pattern), LAMBDA p : p \in DOMAIN files)

NoError == [raised |-> None, message |-> "", pattern |-> "", matches |-> <<>>]

ValueError(message, pattern, matches) ==
  [raised |-> "ValueError", message |-> message, pattern |-> pattern,
   matches |-> matches]

\* glob_each without its test for a single match.
RECURSIVE glob_each_no_single_test(_, _)
glob_each_no_single_test(files, patterns) ==
  IF patterns = <<>> THEN [yielded |-> <<>>, error |-> NoError]
  ELSE LET pattern == Head(patterns)
           matches == glob(files, pattern)
           rest == glob_each_no_single_test(files, Tail(patterns))
       IN IF Len(matches) = 0
          THEN [yielded |-> matches,
                error |-> ValueError("Failed, no match for", pattern, <<>>)]
          ELSE [yielded |-> matches \o rest.yielded, error |-> rest.error]

\* glob_each, consumed to its end: what it yielded, and what it raised.
RECURSIVE glob_each(_, _)
glob_each(files, patterns) ==
  IF patterns = <<>> THEN [yielded |-> <<>>, error |-> NoError]
  ELSE LET pattern == Head(patterns)
           matches == glob(files, pattern)
           rest == glob_each(files, Tail(patterns))
       IN IF Len(matches) = 0
          THEN [yielded |-> matches,
                error |-> ValueError("Failed, no match for", pattern, <<>>)]
          ELSE IF Len(matches) = 1
               THEN [yielded |-> matches,
                     error |-> ValueError("Failed, only one match for", pattern,
                                          <<matches[1]>>)]
               ELSE [yielded |-> matches \o rest.yielded, error |-> rest.error]

\* diff_each before its loop: the baseline, if one was given (<<path>>).
diff_each_begin(files, pathLeft) ==
  [pathLeft |-> pathLeft,
   linesLeft |-> IF pathLeft = <<>> THEN <<>> ELSE readlines(files[pathLeft[1]])]

\* A turn of diff_each's loop that takes each compared path as the baseline
\* of the next.
diff_each_next_previous_as_baseline(files, st, path) ==
  LET lines == readlines(files[path])
      differences == context_diff(st.linesLeft, lines, st.pathLeft[1], path)
      now == [pathLeft |-> <<path>>, linesLeft |-> lines]
  IN IF st.pathLeft = <<>>
     THEN [st |-> now, yielded |-> <<>>]
     ELSE IF path = st.pathLeft[1]
          THEN [st |-> st, yielded |-> <<>>]
          ELSE [st |-> now,
                yielded |-> <<[pathLeft |-> st.pathLeft[1], path |-> path,
                               differences |-> IF Len(differences) > 0
                                               THEN differences ELSE None]>>]

\* A turn of diff_each's loop that compares the baseline with itself too.
diff_each_next_no_skip(files, st, path) ==
  LET lines == readlines(files[path])
      differences == context_diff(st.linesLeft, lines, st.pathLeft[1], path)
  IN IF st.pathLeft = <<>>
     THEN [st |-> [pathLeft |-> <<path>>, linesLeft |-> lines], yielded |-> <<>>]
     ELSE [st |-> st,
           yielded |-> <<[pathLeft |-> st.pathLeft[1], path |-> path,
                          differences |-> IF Len(differences) > 0
                                          THEN differences ELSE None]>>]

\* One turn of diff_each's loop: its state afterwards, and what it yielded.
diff_each_next(files, st, path) ==
  LET lines == readlines(files[path])
      differences == context_diff(st.linesLeft, lines, st.pathLeft[1], path)
  IN IF st.pathLeft = <<>>
     THEN [st |-> [pathLeft |-> <<path>>, linesLeft |-> lines], yielded |-> <<>>]
     ELSE IF path = st.pathLeft[1]
          THEN [st |-> st, yielded |-> <<>>]
          ELSE [st |-> st,
                yielded |-> <<[pathLeft |-> st.pathLeft[1], path |-> path,
                               differences |-> IF Len(differences) > 0
                                               THEN differences ELSE None]>>]

RECURSIVE diff_each_loop(_, _, _)
diff_each_loop(files, st, paths) ==
  IF paths = <<>> THEN <<>>
  ELSE LET turn == diff_each_next(files, st, Head(paths))
       IN turn.yielded \o diff_each_loop(files, turn.st, Tail(paths))

\* diff_each over paths, consumed to its end, with no file changed meanwhile.
diff_each(files, paths, pathLeft) ==
  diff_each_loop(files, diff_each_begin(files, pathLeft), paths)

----------------------------------------------------------------------------
\* Inputs of the model.

SeqsUpTo(S, n) == UNION {[1..k -> S] : k \in 0..n}

\* Lines a notices file may hold (before stripping).
RawNoticeLines == { <<"a">>, <<SP, "b", SP>>, <<>> }

\* Lines an original file may hold.
FileLines == { <<>>, <<"a">>, <<"a", "b">>, <<"<", "?", "x", "m", "l">> }

\* A text file of the given lines; the last line may lack its newline.
TextOf(ls, eofNewline) ==
  Flatten([i \in 1..Len(ls) |->
             ls[i] \o (IF i = Len(ls) /\ ~eofNewline THEN <<>> ELSE <<NL>>)])

NoticeFiles == {TextOf(ls, TRUE) : ls \in SeqsUpTo(RawNoticeLines, MaxNoticeLines)}

OriginalContents ==
  {TextOf(ls, e) : ls \in SeqsUpTo(FileLines, MaxFileLines), e \in BOOLEAN}

EditorNames == {".gitignore", "B.java", "r.xml", "i.png", "t.txt"}

\* The patterns of the model's rule table.
AllPatterns ==
  {simplePatterns[i] : i \in 1..Len(simplePatterns)}
    \cup UNION {{namedPatternLists[i][2][j] : j \in 1..Len(namedPatternLists[i][2])} :
                  i \in 1..Len(namedPatternLists)}

TreePaths ==
  UNION {{GlobPool(pattern)[i] : i \in 1..Len(GlobPool(pattern))} :
           pattern \in AllPatterns}

\* The contents a file of the tree may have: 0, 1, ... lines.
TreeContents ==
  {TextOf([i \in 1..k |-> <<"a">>], TRUE) : k \in 0..(NumContents - 1)}

\* The trees: any of the places may hold a file.
Trees(places, contents) == UNION {[S -> contents] : S \in SUBSET places}

----------------------------------------------------------------------------
\* check and insert applied to one file: check the original, insert, put the
\* edited content in the original's place, check again.

InitEditor ==
  \E nf \in NoticeFiles, c \in OriginalContents, n \in EditorNames :
    /\ noticesLines = NoticesEditor_init(nf)
    /\ fs = [p \in {Path(n)} |-> c]
    /\ fsStart = fs
    /\ args = [path |-> Path(n)]
    /\ result = <<>>
    /\ pc = "ed_check"
    /\ counting = FALSE /\ insertNotices = TRUE /\ verbose = FALSE /\ yes = TRUE
    /\ originals = <<>> /\ gitFiles = <<>> /\ idx = 0
    /\ originalsChecked = 0 /\ edited = 0
    /\ ask = <<>> /\ stdin = <<>> /\ out = <<>> /\ report = <<>>

EdCheck ==
  /\ pc = "ed_check"
  /\ result' = <<check(fs, noticesLines, args.path)>>
  /\ pc' = "ed_insert"
  /\ UNCHANGED <<fs, fsStart, noticesLines, counting, insertNotices, verbose, yes, originals,
                 gitFiles, idx, originalsChecked, edited, ask, stdin, out,
                 report, args>>

EdInsert ==
  /\ pc = "ed_insert"
  /\ LET r == insert(fs, noticesLines, args.path)
     IN /\ fs' = r.fs
        /\ result' = Append(result, [raised |-> r.raised,
                                     editedPath |-> r.editedPath,
                                     differences |-> r.differences])
        /\ pc' = IF r.raised = None THEN "ed_overwrite" ELSE "ed_raised"
  /\ UNCHANGED <<fsStart, noticesLines, counting, insertNotices, verbose, yes, originals,
                 gitFiles, idx, originalsChecked, edited, ask, stdin, out,
                 report, args>>

EdOverwrite ==
  /\ pc = "ed_overwrite"
  /\ fs' = shutil_copy(fs, result[2].editedPath, args.path)
  /\ pc' = "ed_recheck"
  /\ UNCHANGED <<fsStart, noticesLines, counting, insertNotices, verbose, yes, originals,
                 gitFiles, idx, originalsChecked, edited, ask, stdin, out,
                 report, args, result>>

EdRecheck ==
  /\ pc = "ed_recheck"
  /\ result' = Append(result, check(fs, noticesLines, args.path))
  /\ pc' = "ed_done"
  /\ UNCHANGED <<fs, fsStart, noticesLines, counting, insertNotices, verbose, yes, originals,
                 gitFiles, idx, originalsChecked, edited, ask, stdin, out,
                 report, args>>

NextEditor == EdCheck \/ EdInsert \/ EdOverwrite \/ EdRecheck

SpecEditor == InitEditor /\ [][NextEditor]_vars

----------------------------------------------------------------------------
\* What the claims about check and insert speak of.

\* The first k notice lines occur in the lines, in order, each in a line of
\* its own, by substring containment.
OccursInOrder(nl, lines, k) ==
  \E f \in [1..k -> 1..Len(lines)] :
    /\ \A i \in 1..k : \A j \in 1..k : i < j => f[i] < f[j]
    /\ \A i \in 1..k : find(lines[f[i]], nl[i]) >= 0

\* How many of the notice lines, from the first, can be so matched.
MatchedSoFar(nl, lines) ==
  CHOOSE k \in 0..Len(nl) :
    /\ OccursInOrder(nl, lines, k)
    /\ \A m \in (k + 1)..Len(nl) : ~OccursInOrder(nl, lines, m)

HasEditor(p) ==
  \/ effective_suffix(p) \in DOMAIN custom_suffixes_map
  \/ \E i \in 1..Len(leader_suffixes_map) :
       effective_suffix(p) \in leader_suffixes_map[i][2]

\* C1: for a file with a non-exempt suffix, check returns (OK, N) when the N
\* notice lines occur in the file in order by substring containment, wherever
\* the match lies, and (not OK, lines matched so far) otherwise; an empty
\* file gives (not OK, 0).
C1_CheckFindsNoticesAnywhere ==
  (pc = "ed_insert" /\ effective_suffix(args.path) \notin exempt_suffixes) =>
    LET lines == readlines(fsStart[args.path])
        N == Len(noticesLines)
    IN IF lines = <<>> THEN result[1] = [ok |-> FALSE, linesFound |-> 0]
       ELSE IF OccursInOrder(noticesLines, lines, N)
            THEN result[1] = [ok |-> TRUE, linesFound |-> N]
            ELSE result[1] = [ok |-> FALSE,
                              linesFound |-> MatchedSoFar(noticesLines, lines)]

\* C2: for a file whose suffix has a leader or a custom editor, whatever its
\* content (an empty file too), check of what insert produced is OK.
C2_InsertThenCheckOK ==
  (pc = "ed_done" /\ HasEditor(args.path)) => result[3].ok

----------------------------------------------------------------------------
\* glob_each applied to a list of patterns over a tree.

InitGlob ==
  \E tree \in Trees(TreePaths, {TextOf(<<>>, TRUE)}),
     patterns \in SeqsUpTo(AllPatterns, MaxPatterns) :
    /\ fs = tree
    /\ fsStart = fs
    /\ args = [patterns |-> patterns]
    /\ result = <<>>
    /\ pc = "glob_each"
    /\ noticesLines = <<>>
    /\ counting = FALSE /\ insertNotices = FALSE /\ verbose = FALSE /\ yes = FALSE
    /\ originals = <<>> /\ gitFiles = <<>> /\ idx = 0
    /\ originalsChecked = 0 /\ edited = 0
    /\ ask = <<>> /\ stdin = <<>> /\ out = <<>> /\ report = <<>>

GlobEach ==
  /\ pc = "glob_each"
  /\ result' = <<glob_each(fs, args.patterns)>>
  /\ pc' = "glob_done"
  /\ UNCHANGED <<fs, fsStart, noticesLines, counting, insertNotices, verbose, yes, originals,
                 gitFiles, idx, originalsChecked, edited, ask, stdin, out,
                 report, args>>

NextGlob == GlobEach

SpecGlob == InitGlob /\ [][NextGlob]_vars

\* The patterns, by position, that match fewer than two files.
Useless(files, patterns) ==
  {i \in 1..Len(patterns) : Len(glob(files, patterns[i])) < 2}

\* The matches of the first n patterns, in order.
MatchesOfFirst(files, patterns, n) ==
  Flatten([i \in 1..n |-> glob(files, patterns[i])])

\* C3: glob_each takes the patterns in order; at the first pattern with no
\* match it fails naming the pattern, at the first with one match it fails
\* naming the pattern and the match, and a pattern with two or more matches
\* has all of them yielded and the next pattern follows without error.
C3_GlobEachFailsOnZeroOrOne ==
  pc = "glob_done" =>
    LET patterns == args.patterns
        bad == Useless(fs, patterns)
        r == result[1]
    IN IF bad = {}
       THEN /\ r.error = NoError
            /\ r.yielded = MatchesOfFirst(fs, patterns, Len(patterns))
       ELSE LET i == CHOOSE b \in bad : \A c \in bad : b <= c
                matches == glob(fs, patterns[i])
            IN /\ r.error.raised = "ValueError"
               /\ r.error.pattern = patterns[i]
               /\ r.error.message = IF matches = <<>> THEN "Failed, no match for"
                                    ELSE "Failed, only one match for"
               /\ r.error.matches = matches
               /\ r.yielded = MatchesOfFirst(fs, patterns, i)

\* A first pattern with three matches, all yielded, and then a second with
\* a single match, which fails.
C3_Witness ==
  /\ pc = "glob_done"
  /\ Len(args.patterns) = 2
  /\ Len(glob(fs, args.patterns[1])) = 3
  /\ Len(result[1].yielded) = 4
  /\ result[1].error.message = "Failed, only one match for"
  /\ result[1].error.pattern = args.patterns[2]

----------------------------------------------------------------------------
\* diff_each applied to a list of paths, with or without a reference.

DiffPaths == {GlobPool("base*/**/styles.xml")[i] : i \in 1..3}

InitDiff ==
  \E tree \in [DiffPaths -> TreeContents],
     paths \in SeqsUpTo(DiffPaths, MaxPaths),
     pathLeft \in {<<>>} \cup {<<p>> : p \in DiffPaths} :
    /\ fs = tree
    /\ fsStart = fs
    /\ args = [paths |-> paths, pathLeft |-> pathLeft]
    /\ result = <<>>
    /\ pc = "diff_each"
    /\ noticesLines = <<>>
    /\ counting = FALSE /\ insertNotices = FALSE /\ verbose = FALSE /\ yes = FALSE
    /\ originals = <<>> /\ gitFiles = <<>> /\ idx = 0
    /\ originalsChecked = 0 /\ edited = 0
    /\ ask = <<>> /\ stdin = <<>> /\ out = <<>> /\ report = <<>>

DiffEach ==
  /\ pc = "diff_each"
  /\ result' = diff_each(fs, args.paths, args.pathLeft)
  /\ pc' = "diff_done"
  /\ UNCHANGED <<fs, fsStart, noticesLines, counting, insertNotices, verbose, yes, originals,
                 gitFiles, idx, originalsChecked, edited, ask, stdin, out,
                 report, args>>

NextDiff == DiffEach

SpecDiff == InitDiff /\ [][NextDiff]_vars

\* The baseline diff_each is to use: the reference, else the first path.
Baseline(paths, pathLeft) ==
  IF pathLeft # <<>> THEN pathLeft ELSE IF paths # <<>> THEN <<paths[1]>> ELSE <<>>

\* C4: diff_each yields one (baseline, candidate, diff) tuple for each input
\* path other than the baseline path, in input order, the baseline being
\* the reference if given and else the first path; the diff is absent
\* exactly when the candidate's lines equal the baseline's.
C4_DiffEachOnePerNonBaseline ==
  pc = "diff_done" =>
    LET base == Baseline(args.paths, args.pathLeft)
        candidates == SelectSeq(args.paths, LAMBDA p : <<p>> # base)
    IN /\ Len(result) = Len(candidates)
       /\ \A i \in 1..Len(result) :
            /\ result[i].pathLeft = base[1]
            /\ result[i].path = candidates[i]
            /\ (result[i].differences = None)
                 <=> (readlines(fs[candidates[i]]) = readlines(fs[base[1]]))

\* A reference that is also among the paths and is passed over, with one
\* candidate that equals it and one that differs.
C4_Witness ==
  /\ pc = "diff_done"
  /\ args.pathLeft # <<>>
  /\ Len(args.paths) = 3
  /\ args.paths[2] = args.pathLeft[1]
  /\ Len(result) = 2
  /\ result[1].differences = None
  /\ result[2].differences # None

----------------------------------------------------------------------------
\* DuplicatorJob in notice mode (--insert-notices).

NoPath == Path("")

\* A printed message, with the file and the numbers it is about.
Msg(text, p, n, m) == [text |-> text, path |-> p, n |-> n, m |-> m]

\* What the user may type at the prompt.
Responses == { <<>>, <<"Y", "e", "s">>, <<"n">>, <<"?">>, <<"q">> }

\* The responses read so far that led to another prompt.
Reprompts(read) ==
  Len(SelectSeq(read, LAMBDA r :
        ~(r = <<>> \/ startswith(str_lower(r), <<"y">>)
            \/ startswith(str_lower(r), <<"n">>))))

\* _ask_overwrite up to its loop: a call with no differences returns None,
\* any other prints the destination and goes on to ask.
ask_overwrite_begin(pathSource, pathDestination, differences, caller, printed) ==
  IF differences = None
  THEN /\ out' = Append(printed, Msg("Same", pathDestination, 0, 0))
       /\ ask' = <<[pathSource |-> pathSource, pathDestination |-> pathDestination,
                    differences |-> differences, caller |-> caller,
                    returned |-> "None"]>>
       /\ pc' = "asked"
  ELSE /\ out' = Append(printed, Msg("Different", pathDestination, 0, 0))
                   \o (IF verbose
                       THEN <<Msg("<differences>", pathDestination, Len(differences), 0)>>
                       ELSE <<>>)
       /\ ask' = <<[pathSource |-> pathSource, pathDestination |-> pathDestination,
                    differences |-> differences, caller |-> caller,
                    returned |-> "asking"]>>
       /\ pc' = "ask"

\* _ask_overwrite taking every response but "n..." and "?" for a yes.
ask_overwrite_response_default_yes(response) ==
  LET a == ask[1]
  IN IF startswith(response, <<"n">>)
     THEN /\ out' = Append(out, Msg("Keeping", a.pathDestination, 0, 0))
          /\ ask' = <<[a EXCEPT !.returned = "False"]>>
          /\ pc' = "asked"
          /\ UNCHANGED fs
     ELSE IF response = <<"?">>
          THEN /\ out' = Append(out, Msg("<differences>", a.pathDestination,
                                         Len(a.differences), 0))
               /\ UNCHANGED <<fs, ask, pc>>
          ELSE /\ out' = Append(out, Msg("Overwriting.", a.pathDestination, 0, 0))
               /\ fs' = shutil_copy(fs, a.pathSource, a.pathDestination)
               /\ ask' = <<[a EXCEPT !.returned = "True"]>>
               /\ pc' = "asked"

\* What _ask_overwrite does with one response.
ask_overwrite_response(response) ==
  LET a == ask[1]
  IN IF response = <<>> \/ startswith(response, <<"y">>)
     THEN /\ out' = Append(out, Msg("Overwriting.", a.pathDestination, 0, 0))
          /\ fs' = shutil_copy(fs, a.pathSource, a.pathDestination)
          /\ ask' = <<[a EXCEPT !.returned = "True"]>>
          /\ pc' = "asked"
     ELSE IF startswith(response, <<"n">>)
          THEN /\ out' = Append(out, Msg("Keeping", a.pathDestination, 0, 0))
               /\ ask' = <<[a EXCEPT !.returned = "False"]>>
               /\ pc' = "asked"
               /\ UNCHANGED fs
          ELSE /\ out' = Append(out,
                           IF response = <<"?">>
                           THEN Msg("<differences>", a.pathDestination,
                                    Len(a.differences), 0)
                           ELSE Msg("Unrecognised", a.pathDestination, 0, 0))
               /\ UNCHANGED <<fs, ask, pc>>

\* One turn of _ask_overwrite's loop: "yes" under --yes, else a line read
\* from the user.
AskOverwriteTurn ==
  /\ pc = "ask"
  /\ \/ /\ yes
        /\ ask_overwrite_response(<<"y", "e", "s">>)
        /\ UNCHANGED stdin
     \/ /\ ~yes
        /\ \E r \in Responses :
             /\ Reprompts(Append(stdin, r)) <= MaxReprompts
             /\ stdin' = Append(stdin, r)
             /\ ask_overwrite_response(str_lower(r))
  /\ UNCHANGED <<fsStart, noticesLines, counting, insertNotices, verbose, yes, originals,
                 gitFiles, idx, originalsChecked, edited, report, args, result>>

\* A return that counts the file as edited whatever the answer was.
notices_business_returns_one(overwritten) == 1

\* What _notices_business returns after the prompt (line 496).
notices_business_returns(overwritten) == IF overwritten THEN 1 ELSE 0

\* _notices_business from its start to its return, its raise, or its
\* question to the user; with __call__'s count of the candidate.
notices_business(path, caller) ==
  /\ originalsChecked' = originalsChecked + 1
  /\ IF is_dir(fs, path)
     THEN \* returns None, and "edited += None" raises
          /\ pc' = "raised"
          /\ result' = <<"TypeError">>
          /\ UNCHANGED <<fs, edited, idx, ask, out>>
     ELSE LET c == check(fs, noticesLines, path)
              notOK == IF verbose \/ ~counting
                       THEN Append(out, Msg("No copyright notices in file", path, 0, 0))
                       ELSE out
              r == insert(fs, noticesLines, path)
          IN IF c.ok
             THEN /\ out' = IF ~verbose THEN out
                            ELSE IF c.linesFound = NoLineCount
                                 THEN Append(out, Msg("No notice insertion for suffix",
                                                      path, 0, 0))
                                 ELSE Append(out, Msg("Notice lines", path,
                                                      c.linesFound, 0))
                  /\ edited' = edited + 0
                  /\ idx' = idx + 1
                  /\ UNCHANGED <<fs, pc, ask, result>>
             ELSE IF counting
                  THEN /\ out' = notOK
                       /\ edited' = edited + 1
                       /\ idx' = idx + 1
                       /\ UNCHANGED <<fs, pc, ask, result>>
                  ELSE IF r.raised # None
                       THEN /\ fs' = r.fs
                            /\ out' = notOK
                            /\ pc' = "raised"
                            /\ result' = <<r.raised>>
                            /\ UNCHANGED <<edited, idx, ask>>
                       ELSE /\ fs' = r.fs
                            /\ ask_overwrite_begin(r.editedPath, path, r.differences,
                                                   caller, notOK)
                            /\ UNCHANGED <<edited, idx, result>>
  /\ UNCHANGED <<fsStart, noticesLines, counting, insertNotices, verbose, yes, originals,
                 gitFiles, stdin, report, args>>

\* for original in self.originals: ... _notices_business(Path(original))
NoticesOriginal ==
  /\ pc = "originals"
  /\ insertNotices
  /\ idx <= Len(originals)
  /\ notices_business(originals[idx], "originals")

\* The originals are done: if there was none, git's files follow in notice
\* mode and diff_all otherwise; and notice mode ends with the summary.
OriginalsDone ==
  /\ pc = "originals"
  /\ idx > Len(originals)
  /\ pc' = IF originalsChecked = 0
           THEN (IF insertNotices THEN "git" ELSE "diff_all")
           ELSE (IF insertNotices THEN "summary" ELSE "done")
  /\ idx' = 1
  /\ UNCHANGED <<fs, fsStart, noticesLines, counting, insertNotices, verbose, yes, originals,
                 gitFiles, originalsChecked, edited, ask, stdin, out, report,
                 args, result>>

\* for path in self.git_ls_files(): ... _notices_business(path)
NoticesGit ==
  /\ pc = "git"
  /\ idx <= Len(gitFiles)
  /\ notices_business(gitFiles[idx], "git")

GitDone ==
  /\ pc = "git"
  /\ idx > Len(gitFiles)
  /\ pc' = "summary"
  /\ UNCHANGED <<fs, fsStart, noticesLines, counting, insertNotices, verbose, yes, originals,
                 gitFiles, idx, originalsChecked, edited, ask, stdin, out,
                 report, args, result>>

\* _notices_business after _ask_overwrite returned: the check of the
\* overwritten file, and the return.
NoticesAfterAsk ==
  /\ pc = "asked"
  /\ ask[1].caller \in {"originals", "git"}
  /\ LET overwritten == ask[1].returned = "True"
         c == check(fs, noticesLines, ask[1].pathDestination)
     IN IF overwritten /\ ~c.ok
        THEN /\ pc' = "raised"
             /\ result' = <<"RuntimeError">>
             /\ UNCHANGED <<out, edited, idx, ask>>
        ELSE /\ out' = IF overwritten /\ verbose
                       THEN Append(out, Msg("Overwritten file OK.",
                                            ask[1].pathDestination, 0, 0))
                       ELSE out
             /\ edited' = edited + notices_business_returns(overwritten)
             /\ idx' = idx + 1
             /\ pc' = ask[1].caller
             /\ ask' = <<>>
             /\ UNCHANGED result
  /\ UNCHANGED <<fs, fsStart, noticesLines, counting, insertNotices, verbose, yes, originals,
                 gitFiles, originalsChecked, stdin, report, args>>

\* print(f"Checked:{originalsChecked}. Edited:{edited}.")
Summary ==
  /\ pc = "summary"
  /\ out' = Append(out, Msg("Checked:Edited:", NoPath, originalsChecked, edited))
  /\ pc' = "done"
  /\ UNCHANGED <<fs, fsStart, noticesLines, counting, insertNotices, verbose, yes, originals,
                 gitFiles, idx, originalsChecked, edited, ask, stdin, report,
                 args, result>>

\* The candidates of a run, and the trees they may be in.
RunNames == {"a.py", "r.xml", "i.png", "t.txt", "src"}

RunContents(name) ==
  CASE name = "a.py" -> {TextOf(<<>>, TRUE), TextOf(<<<<"a">>>>, TRUE),
                         TextOf(<<<<"a">>, <<"b">>>>, TRUE), TextOf(<<<<"b">>>>, TRUE)}
    [] name = "r.xml" -> {TextOf(<<>>, TRUE),
                          TextOf(<<<<"<", "?", "x", "m", "l">>, <<"b">>>>, FALSE)}
    [] name = "i.png" -> {TextOf(<<<<"P", "N", "G">>>>, FALSE)}
    [] name = "t.txt" -> {TextOf(<<<<"b">>>>, TRUE)}
    [] OTHER -> {Dir}

RunTrees(names) ==
  {tree \in [{Path(n) : n \in names} -> UNION {RunContents(n) : n \in names}] :
     \A n \in names : tree[Path(n)] \in RunContents(n)}

InitNotices ==
  \E names \in SeqsUpTo(RunNames, MaxCandidates), explicit \in BOOLEAN :
    \E tree \in RunTrees({names[i] : i \in 1..Len(names)}) :
      /\ explicit => names # <<>>
      /\ originals = IF explicit THEN [i \in 1..Len(names) |-> Path(names[i])] ELSE <<>>
      /\ gitFiles = IF explicit THEN <<>> ELSE [i \in 1..Len(names) |-> Path(names[i])]
      /\ fs = tree
      /\ fsStart = tree
      /\ noticesLines = NoticesEditor_init(TextOf(<<<<SP, "a">>>>, TRUE))
      /\ counting \in BOOLEAN /\ verbose \in BOOLEAN /\ yes \in BOOLEAN
      /\ insertNotices = TRUE
      /\ pc = "originals" /\ idx = 1
      /\ originalsChecked = 0 /\ edited = 0
      /\ ask = <<>> /\ stdin = <<>> /\ out = <<>> /\ report = <<>>
      /\ args = <<>> /\ result = <<>>

NextNotices ==
  \/ NoticesOriginal
  \/ OriginalsDone
  \/ NoticesGit
  \/ GitDone
  \/ AskOverwriteTurn
  \/ NoticesAfterAsk
  \/ Summary

SpecNotices == InitNotices /\ [][NextNotices]_vars

----------------------------------------------------------------------------
\* What the claims about notice mode speak of.

\* A response that is empty or starts with "y", in either case of letter.
AcceptingResponse(r) == r = <<>> \/ lower(r[1]) = "y"

\* A response that starts with "n", in either case of letter.
RejectingResponse(r) == r # <<>> /\ lower(r[1]) = "n"

\* C5: while _ask_overwrite asks (a call with differences), under --yes it
\* copies the source over the destination and returns accepted without
\* reading a response; otherwise it reads one response, and an empty one or
\* one starting with "y" copies and returns accepted, one starting with "n"
\* returns rejected with every file as it was, and any other ("?" too) leaves
\* every file as it was and asks again.
C5_PromptLoop ==
  [][pc = "ask" =>
       LET a == ask[1]
           copied == /\ fs'[a.pathDestination] = fs[a.pathSource]
                     /\ pc' = "asked"
                     /\ ask'[1].returned = "True"
       IN IF yes
          THEN stdin' = stdin /\ copied
          ELSE /\ Len(stdin') = Len(stdin) + 1
               /\ SubSeq(stdin', 1, Len(stdin)) = stdin
               /\ LET r == stdin'[Len(stdin')]
                  IN IF AcceptingResponse(r) THEN copied
                     ELSE IF RejectingResponse(r)
                          THEN /\ fs' = fs
                               /\ pc' = "asked"
                               /\ ask'[1].returned = "False"
                          ELSE fs' = fs /\ pc' = "ask" /\ ask' = ask]_vars

\* The user answered "?", then something unrecognised, then "Yes", and the
\* destination now holds the source's content, which is not what it held.
C5_Witness ==
  /\ pc = "asked"
  /\ ~yes
  /\ stdin = << <<"?">>, <<"q">>, <<"Y", "e", "s">> >>
  /\ ask[1].returned = "True"
  /\ fs[ask[1].pathDestination] = fs[ask[1].pathSource]
  /\ fs[ask[1].pathDestination] # fsStart[ask[1].pathDestination]

\* The prompt to overwrite p was accepted.
Accepted(p) ==
  \E i \in 1..Len(out) : out[i].text = "Overwriting." /\ out[i].path = p

Declined(p) ==
  \E i \in 1..Len(out) : out[i].text = "Keeping" /\ out[i].path = p

\* C6: in notice mode a file of the tree differs from what it held at the
\* start only if it failed check, --count was not given and the prompt to
\* overwrite it was accepted; no file of the tree goes away.
C6_OnlyAcceptedFilesChange ==
  \A p \in DOMAIN fsStart :
    /\ p \in DOMAIN fs
    /\ fs[p] # fsStart[p] =>
         /\ ~counting
         /\ ~check(fsStart, noticesLines, p).ok
         /\ Accepted(p)

\* One file was overwritten on a "yes"; another, for which an edited copy
\* was made too, was declined and holds what it held.
C6_Witness ==
  /\ \E p \in DOMAIN fsStart : fs[p] # fsStart[p] /\ Accepted(p)
  /\ \E q \in DOMAIN fsStart :
       /\ Declined(q)
       /\ fs[q] = fsStart[q]
       /\ \E e \in DOMAIN fs : e.tmp > 0 /\ e.name = q.name /\ fs[e] # fs[q]

\* The candidates of the run: the originals, else git's files.
Candidates == IF originals # <<>> THEN originals ELSE gitFiles

\* C7: the summary printed at the end of a notice-mode run counts as checked
\* the candidates processed, and as edited the candidates that failed check
\* under --count, and the files overwritten otherwise.
C7_SummaryCounts ==
  pc = "done" =>
    LET s == out[Len(out)]
    IN /\ s.text = "Checked:Edited:"
       /\ s.n = Len(Candidates)
       /\ counting =>
            s.m = Cardinality({i \in 1..Len(Candidates) :
                                 ~check(fsStart, noticesLines, Candidates[i]).ok})
       /\ ~counting =>
            s.m = Len(SelectSeq(out, LAMBDA m : m.text = "Overwriting."))

\* A run under --count and --yes over two files, one of them without the
\* notice: Checked:2. Edited:1., and no file changed.
C7_Witness ==
  /\ pc = "done"
  /\ counting /\ yes
  /\ out[Len(out)] = Msg("Checked:Edited:", NoPath, 2, 1)
  /\ fs = fsStart

\* C11: in notice mode a candidate that is a directory is skipped: nothing is
\* reported about it and it is not edited, the run does not stop at it but
\* goes on to the candidates after it, and a run that stops nowhere else ends
\* with the Checked/Edited summary.
C11_DirectoriesSkipped ==
  /\ \A i \in 1..Len(Candidates) :
       is_dir(fsStart, Candidates[i]) =>
         /\ ~(pc = "raised" /\ idx = i)
         /\ is_dir(fs, Candidates[i])
         /\ \A k \in 1..Len(out) : out[k].path # Candidates[i]
  /\ result # <<"TypeError">>
  /\ pc = "done" => out[Len(out)].text = "Checked:Edited:"

----------------------------------------------------------------------------
\* DuplicatorJob.diff_all: the audit of every rule of the table.

\* One block of the report: its kind, the rule or pattern it names, the
\* paths it names, the count it states and the lines under it.
Block(kind, message, about, paths, count, body) ==
  [kind |-> kind, message |-> message, about |-> about, paths |-> paths,
   count |-> count, body |-> body]

\* pathsFound with the baseline left out.
paths_found_candidates_only(tuples) ==
  [i \in 1..Len(tuples) |-> tuples[i].path]

\* pathsFound: the baseline, then the candidate of every tuple.
paths_found(tuples) ==
  IF tuples = <<>> THEN <<>>
  ELSE <<tuples[1].pathLeft>> \o [i \in 1..Len(tuples) |-> tuples[i].path]

\* The body of diff_all's loop: what it writes for one rule.
diff_all_report(files, description, patterns, verb) ==
  LET globbed == glob_each(files, patterns)
      tuples == diff_each(files, globbed.yielded, <<>>)
      pathsFound == paths_found(tuples)
      differing == SelectSeq(tuples, LAMBDA x : x.differences # None)
      pathDifferences == [i \in 1..Len(differing) |-> <<"    ", differing[i].path>>]
      lineDifferences == Flatten([i \in 1..Len(differing) |-> differing[i].differences])
      pathCount == Len(pathsFound)
  IN IF globbed.error # NoError
     THEN Block("Failed", globbed.error.message, globbed.error.pattern,
                globbed.error.matches, 0, <<>>)
     ELSE IF pathCount <= 0
          THEN Block("Failed", "Failed, no match for", description, <<>>, 0, <<>>)
          ELSE IF pathCount < 2
               THEN Block("Failed", "Failed, only one match for", description,
                          pathsFound, 0, <<>>)
               ELSE IF Len(pathDifferences) > 0
                    THEN Block("Differences", "Differences", description,
                               <<pathsFound[1]>>, 0,
                               IF verb THEN lineDifferences ELSE pathDifferences)
                    ELSE Block("OK", "matches for", description, <<>>,
                               pathCount, <<>>)

\* A loop that a rule's failure ends.
diff_all_rule_after_break(i, block) ==
  IF block.kind = "Failed" THEN Len(named_lists) + 1 ELSE i + 1

\* The rule diff_all's loop takes after rule i ("continue", or the loop's
\* next turn).
diff_all_rule_after(i, block) == i + 1

\* One turn of diff_all's loop.
DiffAllRule ==
  /\ pc = "diff_all"
  /\ idx <= Len(named_lists)
  /\ LET block == diff_all_report(fs, named_lists[idx][1], named_lists[idx][2],
                                  verbose)
     IN /\ report' = Append(report, block)
        /\ idx' = diff_all_rule_after(idx, block)
  /\ UNCHANGED <<fs, fsStart, noticesLines, counting, insertNotices, verbose,
                 yes, originals, gitFiles, pc, originalsChecked, edited, ask,
                 stdin, out, args, result>>

DiffAllDone ==
  /\ pc = "diff_all"
  /\ idx > Len(named_lists)
  /\ pc' = "done"
  /\ UNCHANGED <<fs, fsStart, noticesLines, counting, insertNotices, verbose,
                 yes, originals, gitFiles, idx, originalsChecked, edited, ask,
                 stdin, out, report, args, result>>

\* The tree is the tool's own directory (the default of --top), so the
\* tool's file is there; any other place may hold a file.
AuditTrees ==
  {Written(tree, Path("samers.py"), TextOf(<<>>, TRUE)) :
     tree \in Trees(TreePaths \ {Path("samers.py")}, TreeContents)}

InitAudit ==
  \E tree \in AuditTrees :
    /\ fs = tree
    /\ fsStart = tree
    /\ verbose \in BOOLEAN
    /\ insertNotices = FALSE /\ counting = FALSE /\ yes = FALSE
    /\ noticesLines = <<>>
    /\ originals = <<>> /\ gitFiles = <<>>
    /\ pc = "originals" /\ idx = 1
    /\ originalsChecked = 0 /\ edited = 0
    /\ ask = <<>> /\ stdin = <<>> /\ out = <<>> /\ report = <<>>
    /\ args = <<>> /\ result = <<>>

NextAudit == OriginalsDone \/ DiffAllRule \/ DiffAllDone

SpecAudit == InitAudit /\ [][NextAudit]_vars

----------------------------------------------------------------------------
\* What the claims about the audit speak of.

\* The files the patterns of a rule match, in glob order.
GroupMatches(patterns) == MatchesOfFirst(fs, patterns, Len(patterns))

AllIdentical(paths) ==
  \A i \in 1..Len(paths) : \A j \in 1..Len(paths) : fs[paths[i]] = fs[paths[j]]

RuleReported(k) == k <= Len(report)

\* The report of rule k says OK, with the count of the group's files, and
\* every diff diff_each yields for the group is absent.
ReportedOK(k) ==
  LET patterns == named_lists[k][2]
      tuples == diff_each(fs, glob_each(fs, patterns).yielded, <<>>)
  IN /\ \A i \in 1..Len(tuples) : tuples[i].differences = None
     /\ report[k].kind = "OK"
     /\ report[k].about = named_lists[k][1]
     /\ report[k].count = Len(GroupMatches(patterns))

\* C8 as claimed: a group whose patterns together match two or more files,
\* all identical, gets only absent diffs and the line "OK <count> matches
\* for <description>." with the count of the matched files.
C8_IdenticalGroupReportedOK ==
  \A k \in 1..Len(named_lists) :
    (/\ RuleReported(k)
     /\ Len(GroupMatches(named_lists[k][2])) >= 2
     /\ AllIdentical(GroupMatches(named_lists[k][2])))
      => ReportedOK(k)

\* C8 as amended: the same of a group each of whose patterns matches two or
\* more files, all the matched files identical.
C8_EachPatternTwoIdenticalReportedOK ==
  \A k \in 1..Len(named_lists) :
    (/\ RuleReported(k)
     /\ Useless(fs, named_lists[k][2]) = {}
     /\ AllIdentical(GroupMatches(named_lists[k][2])))
      => ReportedOK(k)

\* The named group with both its patterns matching, five identical files in
\* all, reported OK with count 5.
C8_Witness ==
  /\ pc = "done"
  /\ Len(GroupMatches(named_lists[4][2])) = 5
  /\ AllIdentical(GroupMatches(named_lists[4][2]))
  /\ report[4].kind = "OK"
  /\ report[4].count = 5

\* The one file of the paths that differs from all the others, which are
\* identical: <<path>>, or <<>> if there is no such file.
OddOneOut(paths) ==
  LET odd == {i \in 1..Len(paths) :
                /\ \A j \in 1..Len(paths) : j # i => fs[paths[j]] # fs[paths[i]]
                /\ \A j \in 1..Len(paths) : \A m \in 1..Len(paths) :
                     (j # i /\ m # i) => fs[paths[j]] = fs[paths[m]]}
  IN IF Len(paths) >= 3 /\ odd # {} THEN <<CHOOSE i \in odd : TRUE>> ELSE <<>>

\* The path is listed under the block: by name, or in verbose mode as the
\* file its diff is to.
ListedUnder(block, p) ==
  /\ block.kind = "Differences"
  /\ \E i \in 1..Len(block.body) :
       block.body[i] = IF verbose THEN <<"---", p>> ELSE <<"    ", p>>

\* The candidates of the non-absent diffs diff_each yields for the rule.
DifferingCandidates(k) ==
  LET tuples == diff_each(fs, glob_each(fs, named_lists[k][2]).yielded, <<>>)
  IN {tuples[i].path : i \in {j \in 1..Len(tuples) : tuples[j].differences # None}}

\* C9 as claimed: in a group of three or more files where one file differs
\* from all the others, whatever its place in glob order, that file is the
\* candidate of a non-absent diff and is listed under the group's
\* Differences, and no other file is listed.
C9_OddFileListedWhereverItIs ==
  \A k \in 1..Len(named_lists) :
    LET paths == GroupMatches(named_lists[k][2])
        odd == OddOneOut(paths)
    IN (RuleReported(k) /\ odd # <<>>) =>
         /\ paths[odd[1]] \in DifferingCandidates(k)
         /\ \A i \in 1..Len(paths) :
              ListedUnder(report[k], paths[i]) <=> i = odd[1]

\* C9 as amended: in such a group, each of whose patterns matches two or
\* more files, if the differing file is not the first in glob order it is
\* the candidate of the one non-absent diff and the one file listed under
\* Differences; if it is the first it is the baseline, named in the head of
\* the Differences block, and every other file is a differing candidate and
\* is listed.
C9_OddFileListedUnlessFirst ==
  \A k \in 1..Len(named_lists) :
    LET paths == GroupMatches(named_lists[k][2])
        odd == OddOneOut(paths)
    IN (RuleReported(k) /\ odd # <<>> /\ Useless(fs, named_lists[k][2]) = {}) =>
         /\ report[k].kind = "Differences"
         /\ report[k].paths = <<paths[1]>>
         /\ IF odd[1] # 1
            THEN /\ DifferingCandidates(k) = {paths[odd[1]]}
                 /\ \A i \in 1..Len(paths) :
                      ListedUnder(report[k], paths[i]) <=> i = odd[1]
            ELSE /\ DifferingCandidates(k) = {paths[i] : i \in 2..Len(paths)}
                 /\ \A i \in 1..Len(paths) :
                      ListedUnder(report[k], paths[i]) <=> i # 1

\* The named group's five files with the fourth differing, which alone is
\* listed under its Differences.
C9_Witness ==
  /\ pc = "done"
  /\ ~verbose
  /\ Len(GroupMatches(named_lists[4][2])) = 5
  /\ OddOneOut(GroupMatches(named_lists[4][2])) = <<4>>
  /\ report[4].kind = "Differences"
  /\ report[4].body = << <<"    ", GroupMatches(named_lists[4][2])[4]>> >>

\* Block k of the report is the one report of rule k: a failure message
\* naming one of its patterns (or the rule) and nothing under it, or an OK
\* line or a Differences block naming the rule.
ReportsRule(block, k) ==
  \/ /\ block.kind = "Failed"
     /\ block.body = <<>>
     /\ \/ block.about = named_lists[k][1]
        \/ \E j \in 1..Len(named_lists[k][2]) : block.about = named_lists[k][2][j]
  \/ /\ block.kind \in {"OK", "Differences"}
     /\ block.about = named_lists[k][1]

\* C10: in audit-all mode a pattern matching no file or one file does not
\* stop the run: the report always holds one block for each rule taken so
\* far, in table order, a failed rule's block being its failure message
\* alone; the run is never anywhere but in its loops (where it has a next
\* step) or done, and when it is done every rule of the table has its block.
C10_EveryRuleReportedOnce ==
  /\ pc = "diff_all" => Len(report) = idx - 1
  /\ \A k \in 1..Len(report) : ReportsRule(report[k], k)
  /\ pc = "done" => Len(report) = Len(named_lists)
  /\ pc \in {"originals", "diff_all", "done"}
  /\ pc = "originals" => idx > Len(originals)

\* A run that ends with the first two rules failed (no match, one match) and
\* the two after them reported, one OK and one with differences.
C10_Witness ==
  /\ pc = "done"
  /\ report[1].kind = "Failed" /\ report[1].about = "nuffin"
  /\ report[2].kind = "Failed" /\ report[2].about = "samers*"
  /\ report[2].paths = <<Path("samers.py")>>
  /\ report[3].kind = "OK"
  /\ report[4].kind = "Differences"

----------------------------------------------------------------------------
\* DuplicatorJob in audit mode: process_original for each file given, or
\* diff_all if none was given.

\* Rules.patterns_matched_by: the first rule of the table one of whose
\* patterns globs the target, if there is one: <<rule>> or <<>>.
RECURSIVE patterns_matched_by_from(_, _, _)
patterns_matched_by_from(files, targetPath, k) ==
  IF k > Len(named_lists) THEN <<>>
  ELSE LET patterns == named_lists[k][2]
           matched == \E j \in 1..Len(patterns) :
                        \E i \in 1..Len(glob(files, patterns[j])) :
                          glob(files, patterns[j])[i] = targetPath
       IN IF matched THEN <<named_lists[k]>>
          ELSE patterns_matched_by_from(files, targetPath, k + 1)

patterns_matched_by(files, targetPath) ==
  patterns_matched_by_from(files, targetPath, 1)

\* process_original up to its loop over diff_each: the rule is looked up and
\* printed, the original is read as the baseline and the rule's patterns are
\* globbed; or "No matches." is printed.
ProcessOriginal ==
  /\ pc = "originals"
  /\ ~insertNotices
  /\ idx <= Len(originals)
  /\ originalsChecked' = originalsChecked + 1
  /\ LET originalPath == originals[idx]
         rules == patterns_matched_by(fs, originalPath)
         globbed == glob_each(fs, rules[1][2])
     IN IF rules = <<>>
        THEN /\ out' = Append(out, Msg("No matches.", originalPath, 0, 0))
             /\ idx' = idx + 1
             /\ UNCHANGED <<pc, args>>
        ELSE /\ out' = Append(out, Msg("Matches", originalPath, 0, 0))
             /\ args' = [st |-> diff_each_begin(fs, <<originalPath>>),
                         paths |-> globbed.yielded,
                         error |-> globbed.error]
             /\ pc' = "process_original"
             /\ UNCHANGED idx
  /\ UNCHANGED <<fs, fsStart, noticesLines, counting, insertNotices, verbose,
                 yes, originals, gitFiles, edited, ask, stdin, report, result>>

\* One turn of process_original's loop: diff_each takes the next path that
\* glob_each yields and, unless it is the original itself, _ask_overwrite is
\* called with what diff_each yields; when glob_each has no more, the loop
\* ends, or glob_each's ValueError ends the run.
ProcessOriginalNext ==
  /\ pc = "process_original"
  /\ IF args.paths = <<>>
     THEN IF args.error # NoError
          THEN /\ pc' = "raised"
               /\ result' = <<"ValueError">>
               /\ UNCHANGED <<idx, args, ask, out>>
          ELSE /\ pc' = "originals"
               /\ idx' = idx + 1
               /\ args' = <<>>
               /\ UNCHANGED <<ask, out, result>>
     ELSE LET turn == diff_each_next(fs, args.st, Head(args.paths))
          IN /\ args' = [args EXCEPT !.st = turn.st, !.paths = Tail(args.paths)]
             /\ IF turn.yielded = <<>>
                THEN UNCHANGED <<pc, ask, out>>
                ELSE ask_overwrite_begin(turn.yielded[1].pathLeft,
                                         turn.yielded[1].path,
                                         turn.yielded[1].differences,
                                         "process_original", out)
             /\ UNCHANGED <<idx, result>>
  /\ UNCHANGED <<fs, fsStart, noticesLines, counting, insertNotices, verbose,
                 yes, originals, gitFiles, originalsChecked, edited, stdin,
                 report>>

\* _ask_overwrite returned to process_original, which takes no notice of
\* what it returned.
ProcessOriginalAfterAsk ==
  /\ pc = "asked"
  /\ ask[1].caller = "process_original"
  /\ pc' = "process_original"
  /\ ask' = <<>>
  /\ UNCHANGED <<fs, fsStart, noticesLines, counting, insertNotices, verbose,
                 yes, originals, gitFiles, idx, originalsChecked, edited,
                 stdin, out, report, args, result>>

\* The files that may be given: one of the named group's first pattern, one
\* of its second pattern, and the tool's own file.
GivenPaths ==
  {Path("baseKotlin/styles.xml"), Path("clientJava/styles.xml"),
   Path("samers.py")}

\* The lists of files given: none, one file, or two files of one rule.
GivenLists ==
  SeqsUpTo(GivenPaths, 1)
    \cup {<<Path("baseKotlin/styles.xml"), Path("clientJava/styles.xml")>>}

\* The trees of these runs: the tool's file, and any of four places of the
\* named group, two for each of its patterns.
AuditJobTrees ==
  {Written(tree, Path("samers.py"), TextOf(<<>>, TRUE)) :
     tree \in Trees({Path("baseJava/styles.xml"), Path("baseKotlin/styles.xml"),
                     Path("clientJava/styles.xml"), Path("clientKotlin/styles.xml")},
                    TreeContents)}

InitAuditJob ==
  \E tree \in AuditJobTrees, given \in GivenLists :
    /\ fs = tree
    /\ fsStart = tree
    /\ verbose \in BOOLEAN /\ yes \in BOOLEAN
    /\ insertNotices = FALSE /\ counting = FALSE
    /\ noticesLines = <<>>
    /\ originals = given /\ gitFiles = <<>>
    /\ pc = "originals" /\ idx = 1
    /\ originalsChecked = 0 /\ edited = 0
    /\ ask = <<>> /\ stdin = <<>> /\ out = <<>> /\ report = <<>>
    /\ args = <<>> /\ result = <<>>

NextAuditJob ==
  \/ ProcessOriginal
  \/ ProcessOriginalNext
  \/ AskOverwriteTurn
  \/ ProcessOriginalAfterAsk
  \/ OriginalsDone
  \/ DiffAllRule
  \/ DiffAllDone

SpecAuditJob == InitAuditJob /\ [][NextAuditJob]_vars

----------------------------------------------------------------------------
\* What the claim about overwriting in audit mode speaks of.

\* The prompt for p was opened: its path was displayed as different.
Prompted(p) ==
  \E i \in 1..Len(out) : out[i].text = "Different" /\ out[i].path = p

\* The candidate's lines differ from the reference's: their diff is not
\* absent.
DiffNotAbsent(files, reference, candidate) ==
  readlines(files[reference]) # readlines(files[candidate])

\* With files given: each candidate that process_original takes (a file of
\* the rule other than the given one) whose diff with the given file is not
\* absent gets a prompt to overwrite it from the given file, and one whose
\* diff is absent gets none; an accepted prompt (every prompt under --yes)
\* makes the candidate hold what the given file holds and changes nothing
\* else; and no file changes in any other step.
ExplicitPairsPromptOverwrite ==
  /\ [][(pc = "process_original" /\ args.paths # <<>>
           /\ Head(args.paths) # originals[idx]) =>
          /\ fs' = fs
          /\ ask' # <<>>
          /\ ask'[1].pathSource = originals[idx]
          /\ ask'[1].pathDestination = Head(args.paths)
          /\ IF DiffNotAbsent(fs, originals[idx], Head(args.paths))
             THEN pc' = "ask"
             ELSE pc' = "asked" /\ ask'[1].returned = "None"]_vars
  /\ [][pc = "ask" =>
          /\ yes => ask'[1].returned = "True"
          /\ IF ask'[1].returned = "True"
             THEN fs' = [fs EXCEPT ![ask[1].pathDestination] = fs[ask[1].pathSource]]
             ELSE fs' = fs]_vars
  /\ [][pc # "ask" => fs' = fs]_vars

\* With no file given: when the run is done, for each rule whose patterns
\* each match two files or more, each candidate whose diff with the rule's
\* first file is not absent was prompted for, and under --yes holds what the
\* first file holds.
AuditAllPairsPromptOverwrite ==
  (pc = "done" /\ originals = <<>>) =>
    \A k \in 1..Len(named_lists) :
      LET globbed == glob_each(fsStart, named_lists[k][2])
      IN globbed.error = NoError =>
           \A i \in 2..Len(globbed.yielded) :
             DiffNotAbsent(fsStart, globbed.yielded[1], globbed.yielded[i]) =>
               /\ Prompted(globbed.yielded[i])
               /\ yes => fs[globbed.yielded[i]] = fsStart[globbed.yielded[1]]

\* C12: in audit mode, both with files given and with none given (every
\* rule of the table audited), each (reference, candidate) pair whose diff is
\* not absent leads to a prompt to overwrite the candidate, or to its
\* overwriting under --yes, which if accepted makes the candidate hold the
\* reference's content; a pair whose diff is absent is never overwritten.
C12_DifferingPairsPromptOverwrite ==
  ExplicitPairsPromptOverwrite /\ []AuditAllPairsPromptOverwrite

====
